---- MODULE Spec2Model ----
(***************************************************************************)
(* restcli: the hierarchical path projection engine.                       *)
(*                                                                         *)
(*   src/src/cli.rs     Querier (schema resolver), CLI (navigator)         *)
(*   src/src/prefix.rs  Path, Prefix::build (prefix compressor)            *)
(*   src/src/format.rs  Formatter (hierarchical renderer)                  *)
(*                                                                         *)
(* Strings are sequences of bytes, so that the byte-wise order of paths,   *)
(* starts_with and the trim/split helpers are computed, not assumed.       *)
(* Indices are 0-based where the source's are (binary search results,      *)
(* ranges); TLA+ sequences are 1-based, so element i of the source is      *)
(* s[i + 1] here.                                                          *)
(***************************************************************************)
EXTENDS Integers, Sequences, FiniteSets, TLC

VARIABLES
    apis,          \* CLI::apis, the schema (immutable)
    remote,        \* what the backend answers to a GET, by URL path (static)
    records,       \* CLI::records, the flat list of (path, value)
    more,          \* CLI::more
    root,          \* CLI::root
    current_path,  \* CLI::current_path, the cursor
    last,          \* the last command: its input, the state before it, its outcome
    listed,        \* the range filter_records returned to the last `list`
    runs,          \* the value Prefix::build returned
    rendered       \* what Formatter::fmt wrote

vars == <<apis, remote, records, more, root, current_path, last, listed, runs, rendered>>

----------------------------------------------------------------------------
(* Bytes and strings *)

\* the separator '/'
Slash == 47

sSlash == <<Slash>>
sDash == <<45>>
sA == <<97>>
sB == <<98>>
sC == <<99>>
sZ == <<122>>
sDotDot == <<46, 46>>
sColon == <<58>>

Min(a, b) == IF a <= b THEN a ELSE b

\* str::starts_with
StartsWith(s, p) == Len(p) <= Len(s) /\ SubSeq(s, 1, Len(p)) = p

\* str::ends_with
EndsWith(s, p) == Len(p) <= Len(s) /\ SubSeq(s, Len(s) - Len(p) + 1, Len(s)) = p

\* Ordering
Less == "Less"
Equal == "Equal"
Greater == "Greater"

\* str::cmp: byte-wise lexicographic order
Cmp(a, b) ==
    LET n == Min(Len(a), Len(b))
        diff == {i \in 1..n : a[i] # b[i]}
    IN  IF diff = {}
        THEN IF Len(a) < Len(b) THEN Less ELSE IF Len(a) > Len(b) THEN Greater ELSE Equal
        ELSE LET i == CHOOSE j \in diff : \A k \in diff : j <= k
             IN  IF a[i] < b[i] THEN Less ELSE Greater

\* str::trim_start_matches('/')
RECURSIVE TrimStart(_)
TrimStart(s) == IF s # <<>> /\ Head(s) = Slash THEN TrimStart(Tail(s)) ELSE s

\* str::trim_end_matches('/')
RECURSIVE TrimEnd(_)
TrimEnd(s) ==
    IF s # <<>> /\ s[Len(s)] = Slash THEN TrimEnd(SubSeq(s, 1, Len(s) - 1)) ELSE s

\* str::trim_matches('/')
TrimMatches(s) == TrimEnd(TrimStart(s))

\* str::rsplit_once('/'): <<>> for None, else <<left, right>>
RSplitOnce(s) ==
    LET at == {i \in 1..Len(s) : s[i] = Slash}
    IN  IF at = {} THEN <<>>
        ELSE LET i == CHOOSE j \in at : \A k \in at : k <= j
             IN  <<SubSeq(s, 1, i - 1), SubSeq(s, i + 1, Len(s))>>

\* str::split('/'): the tokens between separators (one more than separators)
RECURSIVE Split(_)
Split(s) ==
    LET at == {i \in 1..Len(s) : s[i] = Slash}
    IN  IF at = {} THEN <<s>>
        ELSE LET i == CHOOSE j \in at : \A k \in at : j <= k
             IN  <<SubSeq(s, 1, i - 1)>> \o Split(SubSeq(s, i + 1, Len(s)))

----------------------------------------------------------------------------
(* serde_json::Value *)

Null == [kind |-> "null", entries |-> <<>>]
Scalar(k) == [kind |-> k, entries |-> <<>>]
Array(items) == [kind |-> "array", entries |-> items]
\* an Object's entries are <<key, value>> pairs in the map's iteration order
Object(entries) == [kind |-> "object", entries |-> entries]

Record(path, value) == [path |-> path, value |-> value]

Keys(recs) == [i \in 1..Len(recs) |-> recs[i].path]

----------------------------------------------------------------------------
(* slice::binary_search_by.  cmps[i + 1] is the comparator's answer for    *)
(* element i.  The result is Ok(i) for an element answering Equal (any one *)
(* of them when there are several) and otherwise Err(insertion point).     *)

Ok(i) == [ok |-> TRUE, idx |-> i]
Err(i) == [ok |-> FALSE, idx |-> i]

BinarySearchBy(cmps) ==
    LET eq == {i \in 1..Len(cmps) : cmps[i] = Equal}
    IN  IF eq # {} THEN {Ok(i - 1) : i \in eq}
        ELSE {Err(Cardinality({i \in 1..Len(cmps) : cmps[i] = Less}))}

\* |(key, _)| key.cmp(path)
KeyOrdering(key, path) == Cmp(key, path)

\* a plausible slip: the end bound found by plain comparison
EndOrderingPlain(key, path) == Cmp(key, path)

\* the comparator of the end bound in filter_records
EndOrdering(key, path) == IF StartsWith(key, path) THEN Less ELSE Cmp(key, path)

\* CLI::filter_records: the half-open ranges [start, end) it can return
FilterRecords(recs, path) ==
    IF path = sSlash THEN {[start |-> 0, end |-> Len(recs)]}
    ELSE LET keys == Keys(recs)
             starts == {r.idx : r \in BinarySearchBy([i \in 1..Len(keys) |-> KeyOrdering(keys[i], path)])}
         IN  UNION {
               LET rest == SubSeq(keys, start + 1, Len(keys))
                   ends == BinarySearchBy([i \in 1..Len(rest) |-> EndOrdering(rest[i], path)])
               IN  {[start |-> start, end |-> start + e.idx] : e \in ends}
               : start \in starts }

----------------------------------------------------------------------------
(* config::API, the schema.  An Option is <<>> for None and <<v>> for      *)
(* Some(v).                                                                *)

API(path, is_entity, jsonpath, sub) ==
    [path |-> path, is_entity |-> is_entity, jsonpath |-> jsonpath, apis |-> sub]

\* Rest::get: the backend's answer for a path; the base URL already ends
\* in '/', so the path's leading separators are dropped.  A resource the
\* backend does not know answers null.
Get(rem, path) ==
    LET url == TrimStart(path)
    IN  IF url \in DOMAIN rem THEN rem[url] ELSE Null

\* jsonpath::find for a member expression "$.name": the member's value, or
\* null when the payload has no such member
Find(name, value) ==
    LET at == {i \in 1..Len(value.entries) : value.entries[i][1] = name}
    IN  IF value.kind = "object" /\ at # {}
        THEN value.entries[CHOOSE i \in at : \A j \in at : i <= j][2]
        ELSE Null

\* Querier::new.  fetched counts the GETs issued; log notes, per GET, the
\* kind of the payload after extraction and the length of results before
\* and after the node was handled, children included.
NewQuerier ==
    [results |-> <<>>, more |-> FALSE, root |-> <<>>, fetched |-> 0,
     failed |-> FALSE, log |-> <<>>, skipped |-> {}]

\* a plausible slip: an entity node's children are never expanded
ExpandsNever(api, filter, path) == api.is_entity # <<TRUE>>

\* whether query_apis recurses into the children of record `path`
Expands(api, filter, path) == api.is_entity # <<TRUE>> \/ StartsWith(filter, path)

RECURSIVE QueryApisFrom(_, _, _, _, _, _)
RECURSIVE QueryRecordsFrom(_, _, _, _, _, _, _)

\* Querier::query_apis from the k-th api on, `m` being the local `more`.
\* env = [filter, remote, failAt]: the failAt-th GET of the pass fails
\* (0: none does).
QueryApisFrom(q, as, k, prefix, m, env) ==
    IF k > Len(as)
    THEN IF q.root = <<>> THEN [q EXCEPT !.more = m, !.root = <<prefix>>] ELSE q
    ELSE LET api == as[k]
             path == prefix \o TrimStart(api.path)
             q1 == [q EXCEPT !.fetched = @ + 1]
         IN  IF q1.fetched = env.failAt THEN [q1 EXCEPT !.failed = TRUE]
             ELSE LET got == Get(env.remote, path)
                      value == IF api.jsonpath # <<>> THEN Find(api.jsonpath[1], got) ELSE got
                      at == Len(q1.log) + 1
                      q2 == [q1 EXCEPT !.log = Append(@,
                               [url |-> path, kind |-> value.kind,
                                before |-> Len(q1.results), after |-> Len(q1.results)])]
                  IN  IF value.kind # "object"
                      THEN QueryApisFrom(q2, as, k + 1, prefix, m, env)
                      ELSE LET r == QueryRecordsFrom(q2, api, value.entries, 1, prefix, m, env)
                               q3 == [r.q EXCEPT !.log[at].after = Len(r.q.results)]
                           IN  IF r.q.failed THEN r.q
                               ELSE QueryApisFrom(q3, as, k + 1, prefix, r.more, env)

\* the loop over a payload's entries (cli.rs 52-62) from the j-th entry on
QueryRecordsFrom(q, api, entries, j, prefix, m, env) ==
    IF j > Len(entries) THEN [q |-> q, more |-> m]
    ELSE LET path == prefix \o TrimMatches(entries[j][1])
             q1 == [q EXCEPT !.results = Append(@, Record(path, entries[j][2]))]
             sub_apis == IF api.apis = <<>> THEN <<>> ELSE api.apis[1]
         IN  IF sub_apis = <<>>
             THEN QueryRecordsFrom(q1, api, entries, j + 1, prefix, m, env)
             ELSE IF Expands(api, env.filter, path)
                  THEN LET q2 == QueryApisFrom(q1, sub_apis, 1, path \o sSlash, FALSE, env)
                       IN  IF q2.failed THEN [q |-> q2, more |-> TRUE]
                           ELSE QueryRecordsFrom(q2, api, entries, j + 1, prefix, TRUE, env)
                  ELSE QueryRecordsFrom([q1 EXCEPT !.skipped = @ \cup {path}],
                                        api, entries, j + 1, prefix, TRUE, env)

\* a plausible slip: the results are returned in push order
SortByPathNot(recs) == recs

\* Vec::sort_by(|a, b| a.0.cmp(&b.0)): a stable sort by path
RECURSIVE SortByPath(_)
SortByPath(recs) ==
    IF recs = <<>> THEN <<>>
    ELSE LET n == Len(recs)
             init == SortByPath(SubSeq(recs, 1, n - 1))
             x == recs[n]
             k == Cardinality({i \in 1..Len(init) : Cmp(init[i].path, x.path) # Greater})
         IN  SubSeq(init, 1, k) \o <<x>> \o SubSeq(init, k + 1, Len(init))

\* Querier::query
Query(as, rem, filter, failAt) ==
    LET q == QueryApisFrom(NewQuerier, as, 1, sSlash, FALSE,
                           [filter |-> filter, remote |-> rem, failAt |-> failAt])
    IN  IF q.failed
        THEN [ok |-> FALSE, more |-> FALSE, root |-> sSlash, records |-> <<>>,
              fetched |-> q.fetched, log |-> q.log, skipped |-> q.skipped]
        ELSE [ok |-> TRUE, more |-> q.more,
              root |-> IF q.root = <<>> THEN sSlash ELSE q.root[1],
              records |-> SortByPath(q.results),
              fetched |-> q.fetched, log |-> q.log, skipped |-> q.skipped]

----------------------------------------------------------------------------
(* CLI *)

\* a plausible slip: `..` keeps the last segment
ParentSplitNone(cur) == <<Len(cur), <<>>>>

\* the `..` arm of change_directory: (truncate, append)
ParentSplit(cur) ==
    LET sp == RSplitOnce(TrimEnd(cur))
    IN  IF sp = <<>> THEN <<0, <<>>>> ELSE <<Len(sp[1]), <<>>>>

\* cli.rs 120-127: (truncate, append) for an argument
TruncateAppend(cur, arg) ==
    IF arg = sDotDot THEN ParentSplit(cur)
    ELSE IF StartsWith(arg, sSlash) THEN <<0, arg>>
    ELSE <<Len(cur), arg>>

\* cli.rs 131-137: the candidate prefix
Candidate(cur, arg) ==
    LET ta == TruncateAppend(cur, arg)
        prefix == SubSeq(cur, 1, ta[1])
        append == ta[2]
    IN  IF append # <<>>
        THEN (IF ~StartsWith(append, sSlash) /\ ~EndsWith(prefix, sSlash)
              THEN prefix \o sSlash ELSE prefix) \o append
        ELSE prefix

\* prefix.push('/') unless it ends with one
WithSlash(prefix) == IF EndsWith(prefix, sSlash) THEN prefix ELSE prefix \o sSlash

\* cli.rs 138-146: <<>> for "No such path", else <<the accepted prefix>>
Validate(recs, prefix) ==
    LET keys == Keys(recs)
        found == CHOOSE r \in BinarySearchBy([i \in 1..Len(keys) |-> KeyOrdering(keys[i], prefix)]) : TRUE
    IN  IF found.ok THEN <<prefix>>
        ELSE IF found.idx >= Len(recs) \/ ~StartsWith(keys[found.idx + 1], WithSlash(prefix))
             THEN <<>>
             ELSE <<WithSlash(prefix)>>

Session == [records |-> records, more |-> more, root |-> root, current_path |-> current_path]

\* CLI::change_directory; when it starts a resolve pass, the failAt-th GET
\* of the pass fails for some failAt in `fails` (0: no GET fails)
Cd(arg, fails) ==
    LET ta == TruncateAppend(current_path, arg)
        append == ta[2]
        prefix == Candidate(current_path, arg)
        valid == Validate(records, prefix)
        note == [cmd |-> "cd", arg |-> arg, pre |-> Session, candidate |-> prefix,
                 outcome |-> "noop", fetched |-> 0, log |-> <<>>, skipped |-> {}]
    IN  /\ UNCHANGED <<apis, remote, runs, rendered>>
        /\ listed' = <<>>
        /\ IF ta[1] = Len(current_path) /\ append = <<>>
           THEN /\ UNCHANGED <<records, more, root, current_path>>
                /\ last' = note
           ELSE IF valid = <<>>
           THEN /\ UNCHANGED <<records, more, root, current_path>>
                /\ last' = [note EXCEPT !.outcome = "nosuch"]
           ELSE /\ current_path' = valid[1]
                /\ IF \/ append # <<>> /\ ~more
                      \/ append = <<>> /\ StartsWith(valid[1], root)
                   THEN /\ UNCHANGED <<records, more, root>>
                        /\ last' = [note EXCEPT !.outcome = "moved"]
                   ELSE \E failAt \in fails :
                        LET res == Query(apis, remote, valid[1], failAt)
                        IN  /\ last' = [note EXCEPT
                                          !.outcome = IF res.ok THEN "refreshed" ELSE "failed",
                                          !.fetched = res.fetched, !.log = res.log,
                                          !.skipped = res.skipped]
                            /\ IF res.ok
                               THEN /\ more' = res.more
                                    /\ root' = res.root
                                    /\ records' = res.records
                               ELSE UNCHANGED <<records, more, root>>

\* the `list` command: the range of records it prints
List ==
    /\ listed' \in {<<r>> : r \in FilterRecords(records, current_path)}
    /\ UNCHANGED <<apis, remote, records, more, root, current_path, last, runs, rendered>>

----------------------------------------------------------------------------
(* The schemas and backends the session is checked with *)

sX == <<120>>
sY == <<121>>
sD == <<100>>

Leaf(path) == API(path, <<>>, <<>>, <<>>)

Schemas ==
    { \* one lazily expanded entity collection
      <<API(sSlash \o sX, <<TRUE>>, <<>>, <<<<Leaf(sC)>>>>)>>,
      \* an eagerly expanded collection, then a lazy one
      <<API(sX, <<>>, <<>>, <<<<Leaf(sC)>>>>), API(sY, <<TRUE>>, <<>>, <<<<Leaf(sC)>>>>)>>,
      \* two leaf collections at the same level
      <<Leaf(sX), Leaf(sY)>>,
      \* an extraction expression, children declared
      <<API(sX, <<FALSE>>, <<sD>>, <<<<Leaf(sC)>>>>), Leaf(sY)>> }

Number == Scalar("number")

ObjectOf(keys) == Object([i \in 1..Len(keys) |-> <<keys[i], Number>>])

sAB == sA \o sB
sA_B == sA \o sDash \o sB
sABC == sA \o sSlash \o sB \o sSlash \o sC

\* the key lists of the top-level payloads, each in ascending order
TopKeys ==
    { <<>>, <<sA, sB>>, <<sA, sAB>>, <<sA_B, sABC>>, <<sA, sABC>>,
      <<sA, sA_B, sABC, sAB, sB>> }

PayloadsX == {ObjectOf(ks) : ks \in TopKeys} \cup {Number}
PayloadsY == {ObjectOf(<<sA>>), Scalar("string")}
PayloadsC == {ObjectOf(<<sC>>), Null}

\* the backend: the collections x and y, and c under every record of them
Backend(as, px, py, pc) ==
    LET top == {TrimMatches(e[1]) : e \in {px.entries[i] : i \in 1..Len(px.entries)}
                                        \cup {py.entries[i] : i \in 1..Len(py.entries)}}
        wrapped == IF as[1].jsonpath # <<>> THEN Object(<<<<as[1].jsonpath[1], px>>>>) ELSE px
    IN  [u \in {sX, sY} \cup {t \o sSlash \o sC : t \in top} |->
            IF u = sX THEN wrapped ELSE IF u = sY THEN py ELSE pc]

\* CLI::new, for a backend that answers the first resolve pass
Init ==
    /\ apis \in Schemas
    /\ \E px \in PayloadsX, py \in PayloadsY, pc \in PayloadsC :
          remote = Backend(apis, px, py, pc)
    /\ LET res == Query(apis, remote, sSlash, 0)
       IN  /\ more = res.more
           /\ root = res.root
           /\ records = res.records
           /\ last = [cmd |-> "new", arg |-> <<>>,
                      pre |-> [records |-> <<>>, more |-> FALSE, root |-> sSlash,
                               current_path |-> sSlash],
                      candidate |-> sSlash, outcome |-> "refreshed",
                      fetched |-> res.fetched, log |-> res.log, skipped |-> res.skipped]
    /\ current_path = sSlash
    /\ listed = <<>>
    /\ runs = <<>>
    /\ rendered = <<>>

\* the GET of a pass that may fail: 0 for none, else the 1st .. MaxFail-th
MaxFail == 2

\* the arguments of `cd`: "..", none, absolute and relative names
CdArgs ==
    { sDotDot, <<>>, sSlash, sA, sC,
      sSlash \o sA, sSlash \o sB, sSlash \o sAB, sSlash \o sA \o sSlash \o sB }

\* the `cd` command, the transport failing or not
ChangeDirectory(arg) == Cd(arg, 0..MaxFail)

\* the `cd` command when no GET fails
ChangeDirectoryOk(arg) == Cd(arg, {0})

Next ==
    \/ \E arg \in CdArgs : ChangeDirectory(arg)
    \/ List

Spec == Init /\ [][Next]_vars

NextStatic ==
    \/ \E arg \in CdArgs : ChangeDirectoryOk(arg)
    \/ List

\* the session over a static backend whose transport never fails
SpecStatic == Init /\ [][NextStatic]_vars

----------------------------------------------------------------------------
(* Claims about the session *)

HasRecordAtOrUnder(recs, cand) ==
    \E i \in 1..Len(recs) :
        recs[i].path = cand \/ StartsWith(recs[i].path, WithSlash(cand))

\* C2: cd to an absolute or relative name is accepted (the cursor becomes the
\* candidate, with its separator) whenever some record is at or under the
\* candidate; otherwise it reports "No such path", issues no GET and leaves
\* cursor, flat list, more and root as they were.
C2_CdAcceptsExactlyExistingTargets ==
    (last.cmd = "cd" /\ last.arg \notin {sDotDot, <<>>}) =>
        IF HasRecordAtOrUnder(last.pre.records, last.candidate)
        THEN /\ last.outcome \in {"moved", "refreshed", "failed"}
             /\ current_path \in {last.candidate, WithSlash(last.candidate)}
        ELSE /\ last.outcome = "nosuch"
             /\ last.fetched = 0
             /\ Session = last.pre

\* the parent directory of a cursor other than "/", with its trailing slash
ParentDir(cur) == RSplitOnce(TrimEnd(cur))[1] \o sSlash

\* C3: cd ".." moves the cursor to the parent directory written with a
\* trailing slash, and from "/" changes nothing and issues no GET.
C3_CdParentYieldsParentWithSlash ==
    (last.cmd = "cd" /\ last.arg = sDotDot) =>
        IF last.pre.current_path = sSlash
        THEN Session = last.pre /\ last.fetched = 0
        ELSE current_path = ParentDir(last.pre.current_path)

\* C4: after a command whose resolve pass failed, flat list, more, root and
\* cursor are what they were before the command.
C4_FailedPassCommitsNothing ==
    last.outcome = "failed" => Session = last.pre

\* C5: the flat list is in strict ascending byte order of path in every
\* reachable state.
C5_StrictlyAscending ==
    \A i \in 1..(Len(records) - 1) : Cmp(records[i].path, records[i + 1].path) = Less

\* C6: a node whose payload after extraction is not a mapping yields exactly
\* one record (and none from its declared children).
C6_NonMappingYieldsOneLeafRecord ==
    last.outcome = "refreshed" =>
        \A i \in 1..Len(last.log) :
            last.log[i].kind # "object" => last.log[i].after - last.log[i].before = 1

\* the records a top-level schema node produces
ProducedBy(api) ==
    LET got == Get(remote, sSlash \o TrimStart(api.path))
        value == IF api.jsonpath # <<>> THEN Find(api.jsonpath[1], got) ELSE got
    IN  IF value.kind # "object" THEN {}
        ELSE {sSlash \o TrimMatches(value.entries[i][1]) : i \in 1..Len(value.entries)}

\* the records of the children of record p of node api
Expansion(api, p) ==
    LET q == QueryApisFrom(NewQuerier, api.apis[1], 1, p \o sSlash, FALSE,
                           [filter |-> current_path, remote |-> remote, failAt |-> 0])
    IN  {q.results[i].path : i \in 1..Len(q.results)}

AtOrUnder(cur, p) == cur = p \/ StartsWith(cur, p \o sSlash)

\* C10: whenever the cursor is at or under a record of an entity-marked node
\* that declares children, the flat list holds the records of its children.
C10_EntityUnderCursorIsExpanded ==
    \A k \in 1..Len(apis) :
        (apis[k].is_entity = <<TRUE>> /\ apis[k].apis # <<>> /\ apis[k].apis[1] # <<>>) =>
            \A p \in ProducedBy(apis[k]) :
                AtOrUnder(current_path, p) =>
                    Expansion(apis[k], p) \subseteq {records[i].path : i \in 1..Len(records)}

----------------------------------------------------------------------------
(* filter_records as a function: every strictly ascending list over         *)
(* FilterPaths of at most MaxFilterLen records, every cursor of Cursors     *)

MaxFilterLen == 3

FilterPaths ==
    { sSlash \o sA, sSlash \o sA_B, sSlash \o sA \o sSlash \o sB, sSlash \o sABC,
      sSlash \o sAB, sSlash \o sB }

Cursors ==
    FilterPaths \cup {p \o sSlash : p \in FilterPaths} \cup {<<>>, sSlash, sA, sSlash \o sZ}

\* the strictly ascending lists of at most n strings of S
RECURSIVE AscendingLists(_, _)
AscendingLists(S, n) ==
    IF n = 0 THEN {<<>>}
    ELSE LET shorter == AscendingLists(S, n - 1)
             longest == {l \in shorter : Len(l) = n - 1}
         IN  shorter \cup
             {Append(lp[1], lp[2]) :
                 lp \in {x \in longest \X S :
                            x[1] = <<>> \/ Cmp(x[1][Len(x[1])], x[2]) = Less}}

InitFilter ==
    /\ apis = <<>>
    /\ remote = <<>>
    /\ more = FALSE
    /\ root = sSlash
    /\ last = <<>>
    /\ runs = <<>>
    /\ rendered = <<>>
    /\ listed = <<>>
    /\ records \in {[i \in 1..Len(l) |-> Record(l[i], Null)] :
                       l \in AscendingLists(FilterPaths, MaxFilterLen)}
    /\ current_path \in Cursors

SpecFilter == InitFilter /\ [][List]_vars

----------------------------------------------------------------------------
(* prefix.rs *)

MAX_LEVEL == 16

Prefix(text, start, end) == [text |-> text, start |-> start, end |-> end]

\* impl From<&str> for Path; collecting more than MAX_LEVEL tokens panics
PathFrom(raw) == [raw |-> raw, tokens |-> Split(TrimMatches(raw))]

RECURSIVE SumLen(_)
\* fold(0, |acc, s| acc + s.len() + 1)
SumLen(tokens) == IF tokens = <<>> THEN 0 ELSE Len(Head(tokens)) + 1 + SumLen(Tail(tokens))

\* Path::pop: the shortened path and the suffix taken off; panic when the
\* subtraction or split_at is out of range
Pop(path, n) ==
    IF n = 0 THEN [path |-> path, suffix |-> <<>>, panic |-> FALSE]
    ELSE IF n > Len(path.tokens) THEN [path |-> path, suffix |-> <<>>, panic |-> TRUE]
    ELSE LET remain == Len(path.tokens) - n
             length == SumLen(SubSeq(path.tokens, remain + 1, Len(path.tokens)))
         IN  IF length > Len(path.raw) THEN [path |-> path, suffix |-> <<>>, panic |-> TRUE]
             ELSE [path |-> [raw |-> SubSeq(path.raw, 1, Len(path.raw) - length),
                             tokens |-> SubSeq(path.tokens, 1, remain)],
                   suffix |-> SubSeq(path.raw, Len(path.raw) - length + 1, Len(path.raw)),
                   panic |-> FALSE]

\* Path::match_tokens
MatchTokens(a, b) ==
    LET n == Min(Len(a.tokens), Len(b.tokens))
        diff == {i \in 1..n : a.tokens[i] # b.tokens[i]}
    IN  IF diff = {} THEN n ELSE (CHOOSE i \in diff : \A j \in diff : i <= j) - 1

\* Path::num_level
NumLevel(path) == Len(path.tokens)

\* the state of Prefix::build: retval, ref_path, ref_counts, length, sum
\* (counts[i + 1] is ref_counts[i])
PopInto(b, n) ==
    LET r == Pop(b.ref, n)
    IN  [b EXCEPT !.ref = r.path, !.panic = @ \/ r.panic]

Emit(b, start, end) ==
    LET r == Pop(b.ref, b.length)
    IN  [b EXCEPT !.ref = r.path, !.panic = @ \/ r.panic \/ start < 0,
                  !.retval = Append(@, Prefix(r.suffix, start, end)), !.length = 1]

\* prefix.rs 68-80: the levels i = from, from - 1, .., num_match of the run
\* that ended at `index`
RECURSIVE CloseLevels(_, _, _, _)
CloseLevels(b, i, num_match, index) ==
    IF i < num_match \/ b.panic THEN b
    ELSE LET c == b.counts[i + 1]
             b1 == IF c = 1 THEN PopInto(b, 1)
                   ELSE IF i = 0 \/ c < b.counts[i] THEN Emit(b, index - c, index)
                   ELSE IF c = b.counts[i] THEN [b EXCEPT !.length = @ + 1]
                   ELSE PopInto(b, 1)
         IN  CloseLevels(b1, i - 1, num_match, index)

\* prefix.rs 88-99: the final flush, levels i, i - 1, .., 0
RECURSIVE FlushLevels(_, _)
FlushLevels(b, i) ==
    IF i < 0 \/ b.panic THEN b
    ELSE LET c == b.counts[i + 1]
             b1 == IF i = 0 \/ (c > 1 /\ c < b.counts[i]) THEN Emit(b, b.sum - c, b.sum)
                   ELSE IF c = b.counts[i] THEN [b EXCEPT !.length = @ + 1]
                   ELSE PopInto(b, 1)
         IN  FlushLevels(b1, i - 1)

\* heapless::Vec::resize(n, 1).ok(): grows to n, unless n exceeds the capacity
Resize(counts, n) ==
    IF n > MAX_LEVEL THEN counts
    ELSE IF n <= Len(counts) THEN SubSeq(counts, 1, n)
    ELSE counts \o [i \in 1..(n - Len(counts)) |-> 1]

\* prefix.rs 61-87: one iteration of the backward pass
BuildStep(b, index, raw) ==
    LET path == PathFrom(raw)
        num_match == MatchTokens(b.ref, path)
        b1 == [b EXCEPT !.counts = [i \in 1..Len(@) |-> IF i <= num_match THEN @[i] + 1 ELSE @[i]],
                        !.length = 1,
                        !.panic = @ \/ NumLevel(path) > MAX_LEVEL]
        b2 == CloseLevels(b1, NumLevel(b1.ref) - 1, num_match, index)
        b3 == [b2 EXCEPT !.counts = SubSeq(@, 1, NumLevel(b2.ref))]
        b4 == IF NumLevel(path) > NumLevel(b3.ref)
              THEN [b3 EXCEPT !.counts = Resize(@, NumLevel(path)), !.ref = path]
              ELSE b3
    IN  [b4 EXCEPT !.sum = @ + 1]

RECURSIVE BuildPass(_, _, _)
BuildPass(b, rev, index) ==
    IF index >= Len(rev) \/ b.panic THEN b
    ELSE BuildPass(BuildStep(b, index, rev[index + 1]), rev, index + 1)

Reverse(s) == [i \in 1..Len(s) |-> s[Len(s) + 1 - i]]

\* a plausible slip: the ranges are left in the backward pass's index space
RemapKept(sum, run) == run

\* prefix.rs 101-104: a range of the backward pass in forward index space
Remap(sum, run) == Prefix(run.text, sum - run.end, sum - run.start)

\* Prefix::build: [panic, runs]
Build(paths) ==
    IF paths = <<>> THEN [panic |-> FALSE, runs |-> <<>>]
    ELSE LET rev == Reverse(paths)
             first == PathFrom(rev[1])
             b0 == [retval |-> <<>>, ref |-> first, counts |-> Resize(<<>>, NumLevel(first)),
                    length |-> 1, sum |-> 1, panic |-> NumLevel(first) > MAX_LEVEL]
             b1 == BuildPass(b0, rev, 1)
             b2 == FlushLevels([b1 EXCEPT !.length = 1], NumLevel(b1.ref) - 1)
             out == Reverse(b2.retval)
         IN  [panic |-> b2.panic,
              runs |-> [i \in 1..Len(out) |-> Remap(b2.sum, out[i])]]

----------------------------------------------------------------------------
(* Prefix::build as a function: every strictly ascending list of at most    *)
(* MaxLen paths of at most MaxDepth segments drawn from Segs                *)

MaxLen == 4
MaxDepth == 3

Segs == {sA, sB}

\* the paths "/s1/../sd" of exactly d segments
RECURSIVE PathsOfDepth(_)
PathsOfDepth(d) ==
    IF d = 0 THEN {<<>>}
    ELSE {p \o sSlash \o t : p \in PathsOfDepth(d - 1), t \in Segs}

PathSet == UNION {PathsOfDepth(d) : d \in 1..MaxDepth}

NullRecords(paths) == [i \in 1..Len(paths) |-> Record(paths[i], Null)]

InitPrefix ==
    /\ apis = <<>>
    /\ remote = <<>>
    /\ more = FALSE
    /\ root = sSlash
    /\ last = <<>>
    /\ current_path = sSlash
    /\ listed = <<>>
    /\ rendered = <<>>
    /\ runs = <<>>
    /\ records \in {NullRecords(l) : l \in AscendingLists(PathSet, MaxLen)}

\* Prefix::build(records.iter().map(|(key, _)| key.as_ref()))
BuildPrefixes ==
    /\ runs = <<>>
    /\ runs' = <<Build(Keys(records))>>
    /\ UNCHANGED <<apis, remote, records, more, root, current_path, last, listed, rendered>>

SpecPrefix == InitPrefix /\ [][BuildPrefixes]_vars

Built == runs # <<>>

\* C8: the run list is ordered by ascending range start with an enclosing
\* run before the runs nested in it; every range is non-empty and within
\* [0, n); two ranges are disjoint or one contains the other; an empty input
\* yields an empty run list.
C8_RunsNestInForwardOrder ==
    Built =>
        LET rs == runs[1].runs
            n == Len(records)
        IN  /\ ~runs[1].panic
            /\ n = 0 => rs = <<>>
            /\ \A k \in 1..Len(rs) : 0 <= rs[k].start /\ rs[k].start < rs[k].end /\ rs[k].end <= n
            /\ \A j, k \in 1..Len(rs) :
                  j < k => /\ rs[j].start <= rs[k].start
                           /\ rs[j].end <= rs[k].start \/ rs[k].end <= rs[j].end

\* a run list with a run nested in an earlier one and a run disjoint from one
C8_Witness ==
    /\ Built
    /\ \E j, k \in 1..Len(runs[1].runs) :
          /\ j < k
          /\ runs[1].runs[j].start < runs[1].runs[k].start
          /\ runs[1].runs[k].end <= runs[1].runs[j].end
    /\ \E j, k \in 1..Len(runs[1].runs) :
          j < k /\ runs[1].runs[j].end <= runs[1].runs[k].start

RECURSIVE Concat(_)
Concat(ss) == IF ss = <<>> THEN <<>> ELSE Head(ss) \o Concat(Tail(ss))

\* the texts of the runs enclosing run k, outermost first, then its own
FullText(rs, k) ==
    LET enclosing == {j \in 1..(k - 1) : rs[j].start <= rs[k].start /\ rs[k].end <= rs[j].end}
    IN  Concat([j \in 1..k |-> IF j \in enclosing \/ j = k THEN rs[j].text ELSE <<>>])

\* text is a leading sequence of whole segments of path
LeadsSegments(text, path) == path = text \/ StartsWith(path, text \o sSlash)

\* C9: for every run, the texts of its enclosing runs followed by its own
\* are leading whole segments of every path in its range.
C9_RunTextSharedByItsRange ==
    Built =>
        LET rs == runs[1].runs
        IN  /\ ~runs[1].panic
            /\ \A k \in 1..Len(rs) :
                  \A i \in rs[k].start..(rs[k].end - 1) :
                      i < Len(records) => LeadsSegments(FullText(rs, k), records[i + 1].path)

----------------------------------------------------------------------------
(* format.rs.  A line is [indent, text]. *)

INDENT_WIDTH == 2

sSpace == <<32>>
sDot == <<46>>
sPercent2F == <<37, 50, 70>>
sBang == <<33>>

Line(indent, text) == [indent |-> indent, text |-> text]

\* urlencoding::decode, for the one escape the paths here can hold: %2F
RECURSIVE Decode(_)
Decode(s) ==
    IF s = <<>> THEN <<>>
    ELSE IF StartsWith(s, sPercent2F) THEN sSlash \o Decode(SubSeq(s, 4, Len(s)))
    ELSE <<Head(s)>> \o Decode(Tail(s))

\* format.rs 137-142
DecodePath(path) ==
    LET chunks == Split(path)
    IN  IF \E i \in 1..Len(chunks) : \E j \in 1..Len(Decode(chunks[i])) : Decode(chunks[i])[j] = Slash
        THEN Decode([i \in 1..Len(path) |-> IF path[i] = Slash THEN sDot[1] ELSE path[i]])
        ELSE Decode(path)

\* impl Display for Wrapper: the text of a scalar (a string "s", the number
\* 1, the boolean true), nothing for the other kinds
WrapperText(v) ==
    CASE v.kind = "string" -> <<115>>
      [] v.kind = "number" -> <<49>>
      [] v.kind = "bool" -> <<116, 114, 117, 101>>
      [] OTHER -> <<>>

\* yesno[true as usize] with yesno = ["yes", "no"]
YesNo == <<110, 111>>

IsPrimitive(v) == v.kind \notin {"array", "object"}

\* impl Format for Vec<Value>
VecFormat(items, key, indent) ==
    IF items = <<>> THEN <<>>
    ELSE IF \A i \in 1..Len(items) : IsPrimitive(items[i])
    THEN [i \in 1..Len(items) |-> Line(indent, key \o sSpace \o WrapperText(items[i]))]
    ELSE <<Line(indent, key)>>
         \o Concat([i \in 1..Len(items) |->
                      <<Line(indent + INDENT_WIDTH, sBang),
                        Line(indent + INDENT_WIDTH, WrapperText(items[i]))>>])
         \o <<Line(indent + INDENT_WIDTH, sBang)>>

\* impl Format for Map<String, Value>
RECURSIVE MapFormat(_, _)
MapFormat(entries, indent) ==
    IF entries = <<>> THEN <<>>
    ELSE LET key == Head(entries)[1]
             value == Head(entries)[2]
             lines == CASE value.kind = "null" -> <<Line(indent, key)>>
                        [] value.kind = "bool" -> <<Line(indent, key \o sSpace \o YesNo)>>
                        [] value.kind \in {"number", "string"} ->
                              <<Line(indent, key \o sSpace \o WrapperText(value))>>
                        [] value.kind = "array" -> VecFormat(value.entries, key, indent)
                        [] OTHER -> <<Line(indent, key)>>
                                    \o MapFormat(value.entries, indent + INDENT_WIDTH)
         IN  lines \o MapFormat(Tail(entries), indent)

\* impl Format for Value
ValueFormat(value, key, indent) ==
    CASE value.kind = "null" -> <<Line(indent, key)>>
      [] value.kind = "array" ->
            [i \in 1..Len(value.entries) |->
                Line(indent, key \o sSpace \o WrapperText(value.entries[i]))]
      [] value.kind = "object" ->
            (IF key # <<>> THEN <<Line(indent, key)>> ELSE <<>>)
            \o MapFormat(value.entries, indent + INDENT_WIDTH)
      [] OTHER -> <<>>

\* The state of Formatter::fmt: the stack `current` (each run with whether
\* its header carries the ':' marker), index, ctx.indent, prefix_len, the
\* lines written, and per record what was written for it: the texts of the
\* open runs, the label remainder, and whether a line shows the record (its
\* label, or for an empty remainder the marked header of the innermost run).
NewFormatter ==
    [current |-> <<>>, index |-> 0, indent |-> 0, prefix_len |-> 0,
     lines |-> <<>>, shown |-> <<>>, panic |-> FALSE]

\* format.rs 165-169
RECURSIVE CloseRuns(_, _)
CloseRuns(f, i) ==
    IF f.current = <<>> \/ i < f.current[Len(f.current)].run.end \/ f.panic THEN f
    ELSE LET pop == f.current[Len(f.current)].run
         IN  CloseRuns([f EXCEPT !.current = SubSeq(@, 1, Len(@) - 1),
                                 !.prefix_len = @ - Len(pop.text),
                                 !.indent = @ - INDENT_WIDTH,
                                 !.panic = f.prefix_len < Len(pop.text) \/ f.indent < INDENT_WIDTH],
                       i)

\* format.rs 170-181
RECURSIVE OpenRuns(_, _, _, _)
OpenRuns(f, prefixes, i, path) ==
    IF f.index >= Len(prefixes) \/ i < prefixes[f.index + 1].start \/ f.panic THEN f
    ELSE LET prefix == prefixes[f.index + 1]
             prefix_len == f.prefix_len + Len(prefix.text)
             marked == prefix_len = Len(path)
             text == DecodePath(prefix.text) \o (IF marked THEN sColon ELSE <<>>)
         IN  OpenRuns([f EXCEPT !.prefix_len = prefix_len,
                                !.lines = Append(@, Line(f.indent, text)),
                                !.current = Append(@, [run |-> prefix, marked |-> marked]),
                                !.panic = Len(f.current) >= MAX_LEVEL,
                                !.index = @ + 1,
                                !.indent = @ + INDENT_WIDTH],
                      prefixes, i, path)

\* format.rs 164-188: record i
FormatRecord(f, prefixes, i, rec) ==
    LET f1 == OpenRuns(CloseRuns(f, i), prefixes, i, rec.path)
        headers == Concat([k \in 1..Len(f1.current) |-> f1.current[k].run.text])
    IN  IF f1.panic THEN f1
        ELSE IF Len(rec.path) = f1.prefix_len
        THEN IF f1.indent < INDENT_WIDTH THEN [f1 EXCEPT !.panic = TRUE]
             ELSE [f1 EXCEPT
                     !.lines = @ \o ValueFormat(rec.value, <<>>, f1.indent - INDENT_WIDTH),
                     !.shown = Append(@, [headers |-> headers, label |-> <<>>,
                                          shown |-> f1.current # <<>>
                                                    /\ f1.current[Len(f1.current)].marked])]
        ELSE IF f1.prefix_len > Len(rec.path) THEN [f1 EXCEPT !.panic = TRUE]
        ELSE LET rest == SubSeq(rec.path, f1.prefix_len + 1, Len(rec.path))
                 out == ValueFormat(rec.value, DecodePath(rest \o sColon), f1.indent)
             IN  [f1 EXCEPT !.lines = @ \o out,
                            !.shown = Append(@, [headers |-> headers, label |-> rest,
                                                 shown |-> out # <<>>])]

RECURSIVE FormatFrom(_, _, _, _)
FormatFrom(f, prefixes, recs, i) ==
    IF i >= Len(recs) \/ f.panic THEN f
    ELSE FormatFrom(FormatRecord(f, prefixes, i, recs[i + 1]), prefixes, recs, i + 1)

\* impl Display for Formatter
Fmt(recs) ==
    LET built == Build(Keys(recs))
    IN  IF built.panic THEN [NewFormatter EXCEPT !.panic = TRUE]
        ELSE FormatFrom(NewFormatter, built.runs, recs, 0)

----------------------------------------------------------------------------
(* Formatter::fmt as a function: every strictly ascending list of at most   *)
(* MaxFormatLen paths of PathSet, every record with a value of Values       *)

MaxFormatLen == 3

Values ==
    { Null, Number, Array(<<Number>>), Object(<<<<sA, Number>>>>) }

RECURSIVE WithValues(_)
\* the record lists over a list of paths
WithValues(paths) ==
    IF paths = <<>> THEN {<<>>}
    ELSE {<<Record(Head(paths), v)>> \o rest : v \in Values, rest \in WithValues(Tail(paths))}

InitFormat ==
    /\ apis = <<>>
    /\ remote = <<>>
    /\ more = FALSE
    /\ root = sSlash
    /\ last = <<>>
    /\ current_path = sSlash
    /\ listed = <<>>
    /\ runs = <<>>
    /\ rendered = <<>>
    /\ records \in UNION {WithValues(l) : l \in AscendingLists(PathSet, MaxFormatLen)}

\* println!("{}", Formatter::from(records))
Format ==
    /\ rendered = <<>>
    /\ rendered' = <<Fmt(records)>>
    /\ UNCHANGED <<apis, remote, records, more, root, current_path, last, listed, runs>>

SpecFormat == InitFormat /\ [][Format]_vars

\* C7: the Formatter renders every record, without failing, such that the
\* texts of the run headers open for it followed by its label remainder are
\* its full path, and a line shows it.
C7_RenderingRecoversEveryPath ==
    rendered # <<>> =>
        /\ ~rendered[1].panic
        /\ Len(rendered[1].shown) = Len(records)
        /\ \A i \in 1..Len(records) :
              /\ rendered[1].shown[i].headers \o rendered[1].shown[i].label = records[i].path
              /\ rendered[1].shown[i].shown

----------------------------------------------------------------------------
(* The resolver's report and the listing inside a virtual directory *)

\* the state right after a successful resolve pass (CLI::new or a refresh by
\* cd): current_path is the filter the pass was run with
AfterPass == last.outcome = "refreshed"

\* C11: after every successful resolve pass with filter f, more is true
\* exactly when some record of a node with declared children had its
\* expansion skipped (entity-marked, f does not start with the record's
\* path), and root is the prefix the pass was anchored at: "/" where the
\* traversal starts, or the cursor the pass was run for.
C11_MoreIffSkippedAndRootIsAnchor ==
    AfterPass =>
        /\ more <=> (last.skipped # {})
        /\ root \in {sSlash, WithSlash(current_path)}

\* the node the cursor stands at
TargetNode == TrimEnd(current_path)

\* C12: once change_directory has accepted a target, every record selected
\* for list equals the target node's path or continues it with a "/".
C12_ListedInsideDirectory ==
    (listed # <<>> /\ current_path # sSlash) =>
        \A i \in (listed[1].start + 1)..listed[1].end :
            \/ records[i].path = TargetNode
            \/ StartsWith(records[i].path, TargetNode \o sSlash)

====
